---- MODULE Spec2Model ----
(***************************************************************************)
(* A model of the BEA download client: the rate limited BeaApiClient       *)
(* (ApiClient.py) and the dataset cache built on it                        *)
(* (downloadBeaDatasets.py, beaData.py, main.py).                          *)
(*                                                                         *)
(* Time is the wall clock of time.time() in whole seconds.  It advances    *)
(* in steps of TickSecs between any two statements, and by exactly the     *)
(* requested duration inside time.sleep.                                   *)
(***************************************************************************)
EXTENDS Integers, Sequences, FiniteSets, TLC

VARIABLES
    now,        \* time.time(), in seconds
    client,     \* the fields of the BeaApiClient instance
    pc,         \* caller -> position inside sendRequest / checkLimits
    req,        \* caller -> the url of the call in progress
    response,   \* caller -> the response object its last GET received
    ret,        \* caller -> outcome of the caller's last finished call
    getLog,     \* times at which an HTTP GET was issued (observer)
    sent,       \* the urls of the HTTP GETs issued, in order (observer)
    atCall,     \* caller -> the client and the number of GETs when its call began (observer)
    loaded,     \* caller -> the counter value read by its += in progress
    server,     \* what the BEA server holds
    today,      \* datetime.now(), to the day
    file,       \* the cache file beaDataSets.txt
    rpc,        \* position of main.py inside readBeaDataSets
    path,       \* which branch of readBeaDataSets called downloadBeaDatasets
    build,      \* the local variables of downloadBeaDatasets
    result,     \* what readBeaDataSets returned or raised
    printed,    \* the messages readBeaDataSets printed
    runs,       \* number of times main.py has been started
    fileAtCall  \* the cache file as it was when readBeaDataSets was called (observer)

limiterVars == <<now, client, pc, req, response, ret, getLog, sent, atCall, loaded>>
cacheVars == <<server, today, file, rpc, path, build, result, printed, runs, fileAtCall>>

\* ------------------------------------------------------------------ bounds
MaxTime == 160          \* the clock stops advancing here
MaxGets == 5            \* direct sendRequest calls stop after this many GETs
MaxRequestLimit == 2    \* requestLimit ranges over 1..MaxRequestLimit
MaxErrorLimit == 2      \* errorLimit ranges over 1..MaxErrorLimit
LiveGets == 2           \* the caller of the liveness specification calls this often
ThreadGets == 2         \* the threads make this many calls between them
MaxRuns == 2            \* main.py is started at most this many times
CacheRequestLimit == 3  \* requestLimit of the client that builds the cache

\* ------------------------------------------------- constants of the program
WindowSecs == 60                \* ApiClient.py:67 and :90
MbBytes == 1024 * 1024          \* ApiClient.py:52
StatusOk == 200                 \* ApiClient.py:108
DefaultRequestLimit == 100      \* ApiClient.py:41
DefaultDataLimitMb == 100       \* ApiClient.py:41
DefaultErrorLimit == 30         \* ApiClient.py:41

\* The clock is observed at thirds of a window.
TickSecs == WindowSecs \div 3

\* =============================================================== text
\* A string is a sequence of atoms.  " " and "\n" are the whitespace
\* characters; every other atom is a run of characters that holds no
\* whitespace, quote or backslash.  NUL stands for the character "\0".
Space == " "
Newline == "\n"
NUL == "NUL"
Whitespace == {Space, Newline}
EmptyStr == <<>>

\* str.strip()
Strip(s) ==
    LET keep == {i \in DOMAIN s : s[i] \notin Whitespace}
    IN  IF keep = {} THEN EmptyStr
        ELSE SubSeq(s, CHOOSE i \in keep : \A j \in keep : i <= j,
                       CHOOSE i \in keep : \A j \in keep : i >= j)

\* The lines of a text, in the order file.readline() returns them, each
\* without its line terminator.
RECURSIVE Lines(_)
Lines(text) ==
    IF text = EmptyStr THEN <<>>
    ELSE LET ends == {i \in DOMAIN text : text[i] = Newline}
         IN  IF ends = {} THEN <<text>>
             ELSE LET e == CHOOSE i \in ends : \A j \in ends : i <= j
                  IN  <<SubSeq(text, 1, e - 1)>> \o Lines(SubSeq(text, e + 1, Len(text)))

\* file.readline() for the i-th line: the empty string at the end of the file.
ReadLine(lines, i) == IF i \in DOMAIN lines THEN lines[i] ELSE EmptyStr

\* The concatenation of a sequence of strings.
RECURSIVE Concat(_)
Concat(ss) == IF ss = <<>> THEN EmptyStr ELSE Head(ss) \o Concat(Tail(ss))

\* ====================================================== Python values
\* A Python (or JSON) value: a str, a bool, a list, or a dict whose items are
\* <<key, value>> pairs in insertion order.
PyStr(s) == [t |-> "str", v |-> s]
PyBool(b) == [t |-> "bool", v |-> b]
PyList(items) == [t |-> "list", v |-> items]
PyDict(items) == [t |-> "dict", v |-> items]
IsStr(x) == x.t = "str"
IsList(x) == x.t = "list"
IsDict(x) == x.t = "dict"

\* The text repr() writes between the quotes of a str: a line break is
\* written as backslash n.
EscapeAtom(a) == IF a = Newline THEN "\\n" ELSE a
UnescapeAtom(a) == IF a = "\\n" THEN Newline ELSE a
Escape(s) == [i \in DOMAIN s |-> EscapeAtom(s[i])]
Unescape(s) == [i \in DOMAIN s |-> UnescapeAtom(s[i])]

\* str(value) of a list and of what it holds, as Python's repr writes it.
RECURSIVE Repr(_)
RECURSIVE ReprItems(_)
RECURSIVE ReprPairs(_)
Repr(x) ==
    CASE x.t = "str"  -> <<"'">> \o Escape(x.v) \o <<"'">>
      [] x.t = "bool" -> IF x.v THEN <<"True">> ELSE <<"False">>
      [] x.t = "list" -> <<"[">> \o ReprItems(x.v) \o <<"]">>
      [] x.t = "dict" -> <<"{">> \o ReprPairs(x.v) \o <<"}">>
ReprItems(items) ==
    IF items = <<>> THEN EmptyStr
    ELSE Repr(Head(items)) \o
         (IF Tail(items) = <<>> THEN EmptyStr ELSE <<",", Space>> \o ReprItems(Tail(items)))
ReprPairs(pairs) ==
    IF pairs = <<>> THEN EmptyStr
    ELSE Repr(PyStr(Head(pairs)[1])) \o <<":", Space>> \o Repr(Head(pairs)[2]) \o
         (IF Tail(pairs) = <<>> THEN EmptyStr ELSE <<",", Space>> \o ReprPairs(Tail(pairs)))

\* eval(text) for the literals above: [ok, val, next], where next is the
\* position after the value.  ok is FALSE when eval raises (SyntaxError,
\* NameError, ...).
ParseFail == [ok |-> FALSE, val |-> PyList(<<>>), next |-> 0]
ParseOk(val, next) == [ok |-> TRUE, val |-> val, next |-> next]
At(t, i) == IF i \in DOMAIN t THEN t[i] ELSE "<eof>"

ParseStr(t, i) ==
    LET closing == {j \in DOMAIN t : j > i /\ t[j] = "'"}
    IN  IF closing = {} THEN ParseFail
        ELSE LET j == CHOOSE k \in closing : \A m \in closing : k <= m
             IN  ParseOk(PyStr(Unescape(SubSeq(t, i + 1, j - 1))), j + 1)

RECURSIVE ParseValue(_, _)
RECURSIVE ParseItems(_, _, _)
RECURSIVE ParsePairs(_, _, _)
ParseValue(t, i) ==
    CASE At(t, i) = "'"     -> ParseStr(t, i)
      [] At(t, i) = "True"  -> ParseOk(PyBool(TRUE), i + 1)
      [] At(t, i) = "False" -> ParseOk(PyBool(FALSE), i + 1)
      [] At(t, i) = "["     -> IF At(t, i + 1) = "]" THEN ParseOk(PyList(<<>>), i + 2)
                               ELSE ParseItems(t, i + 1, <<>>)
      [] At(t, i) = "{"     -> IF At(t, i + 1) = "}" THEN ParseOk(PyDict(<<>>), i + 2)
                               ELSE ParsePairs(t, i + 1, <<>>)
      [] OTHER              -> ParseFail
ParseItems(t, i, acc) ==
    LET item == ParseValue(t, i)
    IN  IF ~item.ok THEN ParseFail
        ELSE IF At(t, item.next) = "]"
             THEN ParseOk(PyList(Append(acc, item.val)), item.next + 1)
        ELSE IF At(t, item.next) = "," /\ At(t, item.next + 1) = Space
             THEN ParseItems(t, item.next + 2, Append(acc, item.val))
        ELSE ParseFail
ParsePairs(t, i, acc) ==
    LET key == IF At(t, i) = "'" THEN ParseStr(t, i) ELSE ParseFail
        val == IF key.ok /\ At(t, key.next) = ":" /\ At(t, key.next + 1) = Space
               THEN ParseValue(t, key.next + 2) ELSE ParseFail
    IN  IF ~val.ok THEN ParseFail
        ELSE IF At(t, val.next) = "}"
             THEN ParseOk(PyDict(Append(acc, <<key.val.v, val.val>>)), val.next + 1)
        ELSE IF At(t, val.next) = "," /\ At(t, val.next + 1) = Space
             THEN ParsePairs(t, val.next + 2, Append(acc, <<key.val.v, val.val>>))
        ELSE ParseFail

\* eval(text): the whole text must be one literal.
Eval(text) ==
    LET r == ParseValue(text, 1)
    IN  IF r.ok /\ r.next = Len(text) + 1 THEN r ELSE ParseFail

\* parseList of readBeaDataSets.
parseList(line) ==
    IF Strip(line) # EmptyStr THEN Eval(Strip(line)) ELSE ParseOk(PyList(<<>>), 0)

\* ================================================================ dates
\* datetime values, to the day.
Date(y, m, d) == [year |-> y, month |-> m, day |-> d]

Years == 2023..2025
YearText == [y \in Years |-> CASE y = 2023 -> "2023" [] y = 2024 -> "2024" [] y = 2025 -> "2025"]
TwoDigits ==
    <<"01", "02", "03", "04", "05", "06", "07", "08", "09", "10",
      "11", "12", "13", "14", "15", "16", "17", "18", "19", "20",
      "21", "22", "23", "24", "25", "26", "27", "28", "29", "30", "31">>

IsLeap(y) == (y % 4 = 0 /\ y % 100 # 0) \/ y % 400 = 0
DaysInMonth(y, m) ==
    CASE m \in {4, 6, 9, 11} -> 30
      [] m = 2 -> IF IsLeap(y) THEN 29 ELSE 28
      [] OTHER -> 31

\* currentDate.strftime("%Y-%m-%d")
FormatDate(d) == <<YearText[d.year], "-", TwoDigits[d.month], "-", TwoDigits[d.day]>>

NoDate == Date(0, 0, 0)

\* A parser of the date line that does not check the day against the month.
ParseDateAnyDay(line) ==
    IF /\ Len(line) = 5
       /\ line[2] = "-" /\ line[4] = "-"
       /\ \E y \in Years : YearText[y] = line[1]
       /\ \E m \in 1..12 : TwoDigits[m] = line[3]
       /\ \E d \in 1..31 : TwoDigits[d] = line[5]
    THEN [ok |-> TRUE,
          date |-> Date(CHOOSE yy \in Years : YearText[yy] = line[1],
                        CHOOSE mm \in 1..12 : TwoDigits[mm] = line[3],
                        CHOOSE dd \in 1..31 : TwoDigits[dd] = line[5])]
    ELSE [ok |-> FALSE, date |-> NoDate]

\* datetime.strptime(dateLine, "%Y-%m-%d"): ok is FALSE when it raises
\* ValueError.
ParseDate(line) ==
    IF /\ Len(line) = 5
       /\ line[2] = "-" /\ line[4] = "-"
       /\ \E y \in Years : YearText[y] = line[1]
       /\ \E m \in 1..12 : TwoDigits[m] = line[3]
       /\ \E d \in 1..31 : TwoDigits[d] = line[5]
    THEN LET y == CHOOSE yy \in Years : YearText[yy] = line[1]
             m == CHOOSE mm \in 1..12 : TwoDigits[mm] = line[3]
             d == CHOOSE dd \in 1..31 : TwoDigits[dd] = line[5]
         IN  IF d <= DaysInMonth(y, m)
             THEN [ok |-> TRUE, date |-> Date(y, m, d)]
             ELSE [ok |-> FALSE, date |-> NoDate]
    ELSE [ok |-> FALSE, date |-> NoDate]

\* A quarter computed by rounding month / 3 down.
getFiscalQuarterFloor(date) == date.month \div 3

\* getFiscalQuarter: math.ceil(date.month / 3)
getFiscalQuarter(date) == (date.month + 2) \div 3

\* The test of readBeaDataSets for an outdated file.
IsOutdated(currentDate, fileDate) ==
    \/ currentDate.year > fileDate.year
    \/ getFiscalQuarter(currentDate) # getFiscalQuarter(fileDate)

\* ---------------------------------------------------------- the environment
\* HTTP status codes the server answers with.
Statuses == {200, 404, 500}
\* len(response.content) of an answer, in bytes.
BodySizes == {0, 700000}

\* The url of a request: the API method and its two optional arguments.
NoArg == <<>>
Url(method, datasetname, parametername) ==
    [method |-> method, datasetname |-> datasetname, ParameterName |-> parametername]
GetDataUrl == Url("GetData", NoArg, NoArg)
NoUrl == Url("none", NoArg, NoArg)

\* The document the server holds for a url (filled in by the catalog model).
NoDoc == [t |-> "none", v |-> <<>>]
DataDoc == [t |-> "dict", v |-> <<>>]

\* Outcome of a call: nothing yet, the parsed JSON, or the raised exception.
NoResponse == [status |-> 0, size |-> 0, doc |-> NoDoc]
NoOutcome == [kind |-> "none", status |-> 0, doc |-> NoDoc]
Returned(doc) == [kind |-> "json", status |-> StatusOk, doc |-> doc]
\* Exception(f"Error during request: {response.status_code}")
RequestError(status) == [kind |-> "error", status |-> status, doc |-> NoDoc]
\* Any other exception, by its type.
PyError(type) == [kind |-> type, status |-> 0, doc |-> NoDoc]

\* ============================================= building the datasets
\* A step of Python that can raise: ok is FALSE and exc names the exception.
Raised(exc) == [ok |-> FALSE, exc |-> exc, val |-> PyList(<<>>)]
Value(val) == [ok |-> TRUE, exc |-> "", val |-> val]

S(word) == <<word>>

\* dict[key]: KeyError when the key is missing, TypeError on a non-dict.
Subscript(d, key) ==
    IF ~IsDict(d) THEN Raised("TypeError")
    ELSE LET hits == {i \in DOMAIN d.v : d.v[i][1] = key}
         IN  IF hits = {} THEN Raised("KeyError")
             ELSE Value(d.v[CHOOSE i \in hits : TRUE][2])

\* dict.get(key, default)
DictGet(d, key, default) ==
    LET hits == {i \in DOMAIN d.v : d.v[i][1] = key}
    IN  IF hits = {} THEN default ELSE d.v[CHOOSE i \in hits : TRUE][2]

\* response['BEAAPI']['Results'][key]
Results(doc, key) ==
    LET api == Subscript(doc, S("BEAAPI"))
        res == IF api.ok THEN Subscript(api.val, S("Results")) ELSE api
    IN  IF res.ok THEN Subscript(res.val, S(key)) ELSE res

\* str(x) inside an f-string.
Format(x) == IF IsStr(x) THEN x.v ELSE Repr(x)

\* What a for loop over x iterates: the items of a list, the keys of a dict,
\* the characters of a str.
Iterate(x) ==
    CASE IsList(x) -> x.v
      [] IsDict(x) -> [i \in DOMAIN x.v |-> PyStr(x.v[i][1])]
      [] IsStr(x)  -> [i \in DOMAIN x.v |-> PyStr(<<x.v[i]>>)]
      [] OTHER     -> <<>>

NA == PyStr(S("N/A"))
Na == PyStr(S("N/a"))

\* A coercion that leaves a bare object out.
ensureResponseIsListOnly(value) ==
    IF IsList(value) THEN value.v ELSE <<>>

\* ensureResponseIsList
ensureResponseIsList(value) ==
    IF IsDict(value) THEN <<value>>
    ELSE IF IsList(value) THEN value.v
    ELSE <<>>

\* extractDataSets: the (name, description) pairs, or AttributeError when an
\* item iterated is not a dict.
extractDataSets(dataSets) ==
    LET items == Iterate(dataSets)
    IN  IF dataSets.t = "bool" THEN Raised("TypeError")
        ELSE IF \E i \in DOMAIN items : ~IsDict(items[i]) THEN Raised("AttributeError")
        ELSE Value([i \in DOMAIN items |->
                <<DictGet(items[i], S("DatasetName"), NA),
                  DictGet(items[i], S("DatasetDescription"), NA)>>])

\* extractParamInfo: the six lists, as the attributes they are assigned to.
extractParamInfo(parameters) ==
    LET ps == ensureResponseIsList(parameters)
        column(key, default) == PyList([i \in DOMAIN ps |-> DictGet(ps[i], S(key), default)])
    IN  IF \E i \in DOMAIN ps : ~IsDict(ps[i]) THEN Raised("AttributeError")
        ELSE Value([parameters |-> column("ParameterName", NA),
                    parametersDescriptions |-> column("ParameterDescription", NA),
                    parametersRequiredInRequest |-> column("ParameterIsRequiredFlag", NA),
                    parametersDefaultValues |-> column("ParameterDefaultValue", Na),
                    parametersMultipleValsAcceptedInRequest |-> column("MultipleAcceptedFlag", Na),
                    parametersAllValueRequest |-> column("AllValue", Na)])

\* A flag conversion that takes everything but "0" for set.
IsNotZero(x) == PyBool(x # PyStr(S("0")))

\* BeaDataSet.updateParametersLists
IsOne(x) == PyBool(x = PyStr(S("1")))
NaIfEmpty(x) == IF x = PyStr(EmptyStr) THEN Na ELSE x
updateParametersLists(o) ==
    [o EXCEPT
       !.parametersRequiredInRequest = PyList([i \in DOMAIN @.v |-> IsOne(@.v[i])]),
       !.parametersMultipleValsAcceptedInRequest = PyList([i \in DOMAIN @.v |-> IsOne(@.v[i])]),
       !.parametersAllValueRequest = PyList([i \in DOMAIN @.v |-> NaIfEmpty(@.v[i])]),
       !.parametersDefaultValues = PyList([i \in DOMAIN @.v |-> NaIfEmpty(@.v[i])])]

SpecialDataSets == {S("NIPA"), S("NIUnderlyingDetail"), S("FixedAssets")}
YearParam == PyStr(S("Year"))

Words(ws) == Concat([i \in DOMAIN ws |-> IF i = 1 THEN <<ws[i]>> ELSE <<Space, ws[i]>>])

\* One entry of the Year parameter of a special dataset.
YearRecord(entry, keys) ==
    LET val(k) == entry.v[CHOOSE i \in DOMAIN entry.v : entry.v[i][1] = keys[k]][2]
        range(a, b) == PyStr(Format(val(a)) \o <<"-">> \o Format(val(b)))
    IN  PyDict(<< <<S("TableName"), val(1)>>,
                  <<Words(<<"Annual", "year", "Range">>), range(2, 3)>>,
                  <<Words(<<"Quarterly", "Year", "Range">>), range(4, 5)>>,
                  <<Words(<<"Monthly", "Year", "Range">>), range(6, 7)>> >>)
YearDescription(entry, keys) ==
    LET tableName == entry.v[CHOOSE i \in DOMAIN entry.v : entry.v[i][1] = keys[1]][2]
    IN  PyStr(Words(<<"Year", "ranges", "for", "annual,", "quarterly,", "and",
                      "monthly", "data", "from", "table:">>) \o <<Space>> \o Format(tableName))

\* extractValidInputs: [validInputs, inputDescriptions] as two lists.
extractValidInputs(inputs, dataSetName, paramName) ==
    LET ins == ensureResponseIsList(inputs)
        special == dataSetName \in SpecialDataSets /\ paramName = YearParam
        needed == IF special THEN 7 ELSE 2
        keys == [i \in DOMAIN ins[1].v |-> ins[1].v[i][1]]
        has(entry, key) == IsDict(entry) /\ \E i \in DOMAIN entry.v : entry.v[i][1] = key
    IN  IF ins = <<>> THEN Raised("IndexError")
        ELSE IF ~IsDict(ins[1]) THEN Raised("AttributeError")
        ELSE IF Len(keys) < needed THEN Raised("IndexError")
        ELSE IF \E i \in DOMAIN ins : \E k \in 1..needed : ~has(ins[i], keys[k])
             THEN Raised("KeyError")
        ELSE IF special
             THEN Value([validInputs |-> PyList([i \in DOMAIN ins |-> YearRecord(ins[i], keys)]),
                         inputDescriptions |-> PyList([i \in DOMAIN ins |-> YearDescription(ins[i], keys)])])
        ELSE Value([validInputs |-> PyList([i \in DOMAIN ins |-> Subscript(ins[i], keys[1]).val]),
                    inputDescriptions |-> PyList([i \in DOMAIN ins |-> Subscript(ins[i], keys[2]).val])])

\* ========================================================== the server
\* A JSON object with the given <<key, value>> pairs; keys are single words.
Obj(pairs) == PyDict([i \in DOMAIN pairs |-> <<S(pairs[i][1]), pairs[i][2]>>])
Str(word) == PyStr(S(word))
Text(ws) == PyStr(Words(ws))

\* What the server holds for one dataset: its entry in the dataset list, the
\* Parameter field of its parameter list, and the ParamValue field of each
\* parameter's values.
ServerDataSet(entry, parameter, paramValues) ==
    [entry |-> entry, Parameter |-> parameter, ParamValue |-> paramValues]

Nipa ==
    ServerDataSet(
        Obj(<< <<"DatasetName", Str("NIPA")>>,
               <<"DatasetDescription", Text(<<"Standard", "NIPA", "tables">>)>> >>),
        PyList(<<
            Obj(<< <<"ParameterName", Str("Frequency")>>,
                   <<"ParameterDataType", Str("string")>>,
                   <<"ParameterDescription", Text(<<"A,", "Q,", "M">>)>>,
                   <<"ParameterIsRequiredFlag", Str("1")>>,
                   <<"ParameterDefaultValue", PyStr(EmptyStr)>>,
                   <<"MultipleAcceptedFlag", Str("1")>>,
                   <<"AllValue", PyStr(EmptyStr)>> >>),
            Obj(<< <<"ParameterName", Str("Year")>>,
                   <<"ParameterDescription", Text(<<"List", "of", "year(s)">>)>>,
                   <<"ParameterIsRequiredFlag", Str("1")>>,
                   <<"MultipleAcceptedFlag", Str("1")>>,
                   <<"AllValue", Str("X")>> >>) >>),
        << <<Str("Frequency"),
             PyList(<< Obj(<< <<"FrequencyID", Str("A")>>, <<"Description", Str("Annual")>> >>),
                       Obj(<< <<"FrequencyID", Str("Q")>>, <<"Description", Str("Quarterly")>> >>) >>)>>,
           <<Str("Year"),
             PyList(<< Obj(<< <<"TableName", Str("T10101")>>,
                              <<"FirstAnnualYear", Str("1929")>>,
                              <<"LastAnnualYear", Str("2023")>>,
                              <<"FirstQuarterlyYear", Str("1947")>>,
                              <<"LastQuarterlyYear", Str("2024")>>,
                              <<"FirstMonthlyYear", Str("0")>>,
                              <<"LastMonthlyYear", Str("0")>> >>) >>)>> >>)

\* A dataset whose parameter list and parameter values are bare objects.
Regional ==
    ServerDataSet(
        Obj(<< <<"DatasetName", Str("Regional")>>,
               <<"DatasetDescription", Text(<<"Regional", "data">>)>> >>),
        Obj(<< <<"ParameterName", Str("GeoFips")>>,
               <<"ParameterDescription", Text(<<"Comma-delimited", "list">>)>>,
               <<"ParameterIsRequiredFlag", Str("0")>>,
               <<"ParameterDefaultValue", PyStr(EmptyStr)>>,
               <<"AllValue", PyStr(EmptyStr)>> >>),
        << <<Str("GeoFips"),
             Obj(<< <<"Key", Str("STATE")>>, <<"Desc", Text(<<"All", "states">>)>> >>)>> >>)

\* A dataset whose parameter list is a bare object with both flags set, a
\* default value and an all-values token, and whose values are an array.
Mne ==
    ServerDataSet(
        Obj(<< <<"DatasetName", Str("MNE")>>,
               <<"DatasetDescription", Text(<<"Multinational", "enterprises">>)>> >>),
        Obj(<< <<"ParameterName", Str("Country")>>,
               <<"ParameterDescription", Text(<<"Country", "code">>)>>,
               <<"ParameterIsRequiredFlag", Str("1")>>,
               <<"ParameterDefaultValue", Str("000")>>,
               <<"MultipleAcceptedFlag", Str("1")>>,
               <<"AllValue", Str("all")>> >>),
        << <<Str("Country"),
             PyList(<< Obj(<< <<"Key", Str("000")>>, <<"Desc", Text(<<"All", "countries">>)>> >>),
                       Obj(<< <<"Key", Str("650")>>, <<"Desc", Str("Brazil")>> >>) >>)>> >>)

\* A dataset whose three parameters differ in their flags, default value and
\* all-values token: set, set to another value, empty and absent.
IntlServTrade ==
    ServerDataSet(
        Obj(<< <<"DatasetName", Str("IntlServTrade")>>,
               <<"DatasetDescription", Text(<<"Trade", "in", "services">>)>> >>),
        PyList(<<
            Obj(<< <<"ParameterName", Str("TypeOfService")>>,
                   <<"ParameterDescription", Text(<<"Type", "of", "service">>)>>,
                   <<"ParameterIsRequiredFlag", Str("1")>>,
                   <<"ParameterDefaultValue", PyStr(EmptyStr)>>,
                   <<"MultipleAcceptedFlag", Str("0")>>,
                   <<"AllValue", Str("All")>> >>),
            Obj(<< <<"ParameterName", Str("TradeDirection")>>,
                   <<"ParameterDescription", Text(<<"Trade", "direction">>)>>,
                   <<"ParameterIsRequiredFlag", Str("true")>>,
                   <<"ParameterDefaultValue", Str("5")>>,
                   <<"MultipleAcceptedFlag", Str("1")>>,
                   <<"AllValue", PyStr(EmptyStr)>> >>),
            Obj(<< <<"ParameterName", Str("Affiliation")>>,
                   <<"ParameterDescription", Str("Affiliation")>> >>) >>),
        << <<Str("TypeOfService"),
             PyList(<< Obj(<< <<"Key", Str("Travel")>>, <<"Desc", Str("Travel")>> >>) >>)>>,
           <<Str("TradeDirection"),
             PyList(<< Obj(<< <<"Key", Str("Exports")>>, <<"Desc", Str("Exports")>> >>),
                       Obj(<< <<"Key", Str("Imports")>>, <<"Desc", Str("Imports")>> >>) >>)>>,
           <<Str("Affiliation"),
             Obj(<< <<"Key", Str("AllAffiliations")>>, <<"Desc", Text(<<"All", "affiliations">>)>> >>)>> >>)

\* Datasets without parameters, told apart by name and description.
Plain(name, description) ==
    ServerDataSet(
        PyDict(<< <<S("DatasetName"), PyStr(name)>>,
                  <<S("DatasetDescription"), PyStr(description)>> >>),
        PyList(<<>>), <<>>)

\* The servers of the model: the datasets each one lists, in its order.
Servers ==
    { <<Nipa, Regional>>,
      <<Mne>>,
      <<IntlServTrade>>,
      <<Plain(S("ITA"), Words(<<"Trade", "data">>)), Plain(S("IIP"), S("Positions"))>>,
      <<Plain(<<Space, "ITA">>, <<"Trade", Space>>)>>,
      <<Plain(EmptyStr, S("Unnamed")), Plain(S("ITA"), S("Trade"))>>,
      <<Plain(S("ITA"), <<"Trade", Newline, "data">>)>>,
      <<Plain(S("ITA"), EmptyStr), Plain(S("IIP"), S("Positions"))>>,
      <<>> }

\* Servers that hold a single dataset and answer the dataset list with that
\* dataset's entry as a bare object.
BareListServers ==
    { <<Plain(S("IIP"), S("Positions"))>>,
      <<Regional>> }

ApiDoc(key, value) ==
    PyDict(<< <<S("BEAAPI"), PyDict(<< <<S("Results"), PyDict(<< <<S(key), value>> >>)>> >>)>> >>)
ApiError == ApiDoc("Error", Str("Unknown"))

\* The files of main.py and downloadBeaDatasets.py name three API methods.
AllDatasetsUrl == Url("GETDATASETLIST", NoArg, NoArg)
ParameterListUrl(dataSetName) == Url("getparameterlist", dataSetName, NoArg)
ParamInputValuesUrl(dataSetName, paramName) ==
    Url("GetParameterValues", dataSetName, Format(paramName))

\* The document a server answers a url with (status 200).
ServerDoc(srv, url) ==
    LET named == {i \in DOMAIN srv :
                     DictGet(srv[i].entry, S("DatasetName"), NA) = PyStr(url.datasetname)}
        ds == srv[CHOOSE i \in named : \A j \in named : i <= j]
        values == {i \in DOMAIN ds.ParamValue : Format(ds.ParamValue[i][1]) = url.ParameterName}
    IN  CASE url.method = "GETDATASETLIST" ->
               ApiDoc("Dataset", IF srv \in BareListServers THEN srv[1].entry
                                 ELSE PyList([i \in DOMAIN srv |-> srv[i].entry]))
          [] url.method = "getparameterlist" ->
               IF named = {} THEN ApiError ELSE ApiDoc("Parameter", ds.Parameter)
          [] url.method = "GetParameterValues" ->
               IF named = {} \/ values = {} THEN ApiError
               ELSE ApiDoc("ParamValue", ds.ParamValue[CHOOSE i \in values : TRUE][2])
          [] OTHER -> DataDoc

\* ------------------------------------------------------------ BeaApiClient
\* BeaApiClient.__init__
NewClient(requestLimit, dataLimitMb, errorLimit, currentTime) ==
    [requestLimit |-> requestLimit,
     dataLimit    |-> dataLimitMb * MbBytes,
     errorLimit   |-> errorLimit,
     requestsMade |-> 0,
     dataReceived |-> 0,
     errorsMade   |-> 0,
     lastReset    |-> currentTime]

\* A rollover that forgets the error counter.
resetCountersKeepErrors(cl, currentTime) ==
    IF currentTime - cl.lastReset > WindowSecs
    THEN [cl EXCEPT !.requestsMade = 0,
                    !.dataReceived = 0,
                    !.lastReset = currentTime]
    ELSE cl

\* BeaApiClient.resetCounters
resetCounters(cl, currentTime) ==
    IF currentTime - cl.lastReset > WindowSecs
    THEN [cl EXCEPT !.requestsMade = 0,
                    !.dataReceived = 0,
                    !.errorsMade = 0,
                    !.lastReset = currentTime]
    ELSE cl

\* A loop condition that lets a caller through at the limit.
LimitsExceededAbove(cl) ==
    \/ cl.requestsMade > cl.requestLimit
    \/ cl.dataReceived > cl.dataLimit
    \/ cl.errorsMade > cl.errorLimit

\* A loop condition that tests the request budget only.
LimitsExceededRequestsOnly(cl) == cl.requestsMade >= cl.requestLimit

\* The condition of the while loop of checkLimits.
LimitsExceeded(cl) ==
    \/ cl.requestsMade >= cl.requestLimit
    \/ cl.dataReceived >= cl.dataLimit
    \/ cl.errorsMade >= cl.errorLimit

\* timeToWait of checkLimits.
TimeToWait(cl, currentTime) == WindowSecs - (currentTime - cl.lastReset)

\* Counting that leaves a failed response out of the request and byte counts.
CountResponseErrorsOnly(cl, status, dataSize) ==
    IF status # StatusOk
    THEN [cl EXCEPT !.errorsMade = @ + 1]
    ELSE [cl EXCEPT !.requestsMade = @ + 1, !.dataReceived = @ + dataSize]

\* The counters after a response of the given status and size.
CountResponse(cl, status, dataSize) ==
    [cl EXCEPT !.requestsMade = @ + 1,
               !.dataReceived = @ + dataSize,
               !.errorsMade = IF status # StatusOk THEN @ + 1 ELSE @]

\* What checkLimits hands back for a response.
Outcome(status, doc) ==
    IF status # StatusOk THEN RequestError(status) ELSE Returned(doc)

\* What is remembered of the start of a call: the client as the call found
\* it, the number of GETs issued before it and the time it began.
NoCall == [inCall |-> FALSE, client |-> NewClient(0, 0, 0, 0), gets |-> 0, at |-> 0]
CallOf(cl, gets, at) == [inCall |-> TRUE, client |-> cl, gets |-> gets, at |-> at]

\* The first statement of checkLimits, run when a caller enters sendRequest.
EnterSendRequest(c, url) ==
    /\ atCall' = [atCall EXCEPT ![c] = CallOf(client, Len(getLog), now)]
    /\ sent' = sent
    /\ loaded' = loaded
    /\ client' = resetCounters(client, now)
    /\ pc' = [pc EXCEPT ![c] = "while"]
    /\ req' = [req EXCEPT ![c] = url]
    /\ ret' = [ret EXCEPT ![c] = NoOutcome]
    /\ UNCHANGED response

\* A caller calls client.sendRequest(url) directly (main.py:30-32).
SendRequest(c) ==
    /\ pc[c] = "idle"
    /\ Len(getLog) < MaxGets
    /\ EnterSendRequest(c, GetDataUrl)
    /\ UNCHANGED <<now, getLog, cacheVars>>

\* One pass of the while loop with a budget exhausted: compute timeToWait and
\* sleep for it when it is positive.
CheckLimitsWait(c) ==
    /\ pc[c] = "while"
    /\ LimitsExceeded(client)
    /\ LET timeToWait == TimeToWait(client, now)
       IN  /\ now' = IF timeToWait > 0 THEN now + timeToWait ELSE now
           /\ now' <= MaxTime
    /\ pc' = [pc EXCEPT ![c] = "reset"]
    /\ UNCHANGED <<client, req, response, ret, getLog, sent, atCall, loaded, cacheVars>>

\* The resetCounters call that ends a pass of the while loop.
CheckLimitsReset(c) ==
    /\ pc[c] = "reset"
    /\ client' = resetCounters(client, now)
    /\ pc' = [pc EXCEPT ![c] = "while"]
    /\ UNCHANGED <<now, req, response, ret, getLog, sent, atCall, loaded, cacheVars>>

\* The loop condition is false: requests.get(url) is issued.
CheckLimitsGet(c) ==
    /\ pc[c] = "while"
    /\ ~LimitsExceeded(client)
    /\ getLog' = Append(getLog, now)
    /\ sent' = Append(sent, req[c])
    /\ UNCHANGED <<atCall, loaded>>
    /\ pc' = [pc EXCEPT ![c] = "get"]
    /\ UNCHANGED <<now, client, req, response, ret, cacheVars>>

\* The answers the server can give to a url.
Responses(url, doc) ==
    {[status |-> s, size |-> z, doc |-> doc] : s \in Statuses, z \in BodySizes}

\* A response handling that goes back to the wait loop after a failed GET.
RespondRetrying(c, r) ==
    /\ pc[c] = "get"
    /\ response' = [response EXCEPT ![c] = r]
    /\ client' = CountResponse(client, r.status, r.size)
    /\ ret' = [ret EXCEPT ![c] = IF r.status # StatusOk THEN NoOutcome
                                 ELSE Outcome(r.status, r.doc)]
    /\ pc' = [pc EXCEPT ![c] = IF r.status # StatusOk THEN "while" ELSE "idle"]
    /\ atCall' = [atCall EXCEPT ![c] = IF r.status # StatusOk THEN @ ELSE NoCall]
    /\ UNCHANGED <<now, req, getLog, sent, loaded, cacheVars>>

\* The response arrives: it is counted, then raised or returned.
Respond(c, r) ==
    /\ pc[c] = "get"
    /\ response' = [response EXCEPT ![c] = r]
    /\ client' = CountResponse(client, r.status, r.size)
    /\ ret' = [ret EXCEPT ![c] = Outcome(r.status, r.doc)]
    /\ pc' = [pc EXCEPT ![c] = "idle"]
    /\ atCall' = [atCall EXCEPT ![c] = NoCall]
    /\ UNCHANGED <<now, req, getLog, sent, loaded, cacheVars>>

CheckLimitsResponse(c) ==
    \E r \in Responses(req[c], ServerDoc(server, req[c])) : Respond(c, r)

\* The wall clock advances.
Tick ==
    /\ now + TickSecs <= MaxTime
    /\ now' = now + TickSecs
    /\ UNCHANGED <<client, pc, req, response, ret, getLog, sent, atCall, loaded, cacheVars>>

\* ---------------------------------------- checkLimits, statement by statement
\* With more than one thread inside checkLimits its statements interleave:
\* resetCounters tests the time, then writes the four fields one by one, and
\* each += reads the counter, then writes it; another thread can run in
\* between. With one caller these steps add up to EnterSendRequest,
\* CheckLimitsReset and Respond.

\* A thread calls client.sendRequest(url) and stands before the resetCounters
\* of line 85.
SendRequestThread(c) ==
    /\ pc[c] = "idle"
    /\ Len(getLog) < MaxGets
    /\ atCall' = [atCall EXCEPT ![c] = CallOf(client, Len(getLog), now)]
    /\ pc' = [pc EXCEPT ![c] = "enter"]
    /\ req' = [req EXCEPT ![c] = GetDataUrl]
    /\ ret' = [ret EXCEPT ![c] = NoOutcome]
    /\ UNCHANGED <<now, client, response, getLog, sent, loaded, cacheVars>>

\* resetCounters, lines 66-67: currentTime is taken and tested, in the call
\* of line 85 and in that of line 96.
ResetCountersTest(c) ==
    /\ pc[c] \in {"enter", "reset"}
    /\ IF now - client.lastReset > WindowSecs
       THEN /\ loaded' = [loaded EXCEPT ![c] = now]
            /\ pc' = [pc EXCEPT ![c] = "write68"]
       ELSE /\ loaded' = loaded
            /\ pc' = [pc EXCEPT ![c] = "while"]
    /\ UNCHANGED <<now, client, req, response, ret, getLog, sent, atCall, cacheVars>>

\* resetCounters, lines 68-71: one assignment each.
ResetCountersWrite(c, line, written, next) ==
    /\ pc[c] = "write" \o line
    /\ client' = written
    /\ pc' = [pc EXCEPT ![c] = next]
    /\ loaded' = IF next = "while" THEN [loaded EXCEPT ![c] = 0] ELSE loaded
    /\ UNCHANGED <<now, req, response, ret, getLog, sent, atCall, cacheVars>>
WriteRequestsMade(c) ==
    ResetCountersWrite(c, "68", [client EXCEPT !.requestsMade = 0], "write69")
WriteDataReceived(c) ==
    ResetCountersWrite(c, "69", [client EXCEPT !.dataReceived = 0], "write70")
WriteErrorsMade(c) ==
    ResetCountersWrite(c, "70", [client EXCEPT !.errorsMade = 0], "write71")
WriteLastReset(c) ==
    ResetCountersWrite(c, "71", [client EXCEPT !.lastReset = loaded[c]], "while")

\* The answers of the server to the threads: a document, or an error, of a
\* size that uses up the byte budget with the second response.
ThreadResponses(url, doc) ==
    {r \in Responses(url, doc) : r.status \in {StatusOk, 500} /\ r.size > 0}

\* requests.get returns and len(response.content) is taken (lines 99-102).
ResponseArrives(c) ==
    /\ pc[c] = "get"
    /\ \E r \in ThreadResponses(req[c], ServerDoc(server, req[c])) :
          response' = [response EXCEPT ![c] = r]
    /\ pc' = [pc EXCEPT ![c] = "load105"]
    /\ UNCHANGED <<now, client, req, ret, getLog, sent, atCall, loaded, cacheVars>>

\* The read of a counter by the += at the given line.
LoadCounter(c, line, value) ==
    /\ pc[c] = "load" \o line
    /\ loaded' = [loaded EXCEPT ![c] = value]
    /\ pc' = [pc EXCEPT ![c] = "store" \o line]
    /\ UNCHANGED <<now, client, req, response, ret, getLog, sent, atCall, cacheVars>>

\* self.requestsMade += 1 (line 105)
LoadRequestsMade(c) == LoadCounter(c, "105", client.requestsMade)
StoreRequestsMade(c) ==
    /\ pc[c] = "store105"
    /\ client' = [client EXCEPT !.requestsMade = loaded[c] + 1]
    /\ pc' = [pc EXCEPT ![c] = "load106"]
    /\ loaded' = [loaded EXCEPT ![c] = 0]
    /\ UNCHANGED <<now, req, response, ret, getLog, sent, atCall, cacheVars>>

\* self.dataReceived += dataSize (line 106), then the status test of line 108
\* and, for a 200, the return of line 112.
LoadDataReceived(c) == LoadCounter(c, "106", client.dataReceived)
StoreDataReceived(c) ==
    /\ pc[c] = "store106"
    /\ client' = [client EXCEPT !.dataReceived = loaded[c] + response[c].size]
    /\ IF response[c].status # StatusOk
       THEN /\ pc' = [pc EXCEPT ![c] = "load109"]
            /\ UNCHANGED <<response, ret, atCall>>
       ELSE /\ pc' = [pc EXCEPT ![c] = "idle"]
            /\ ret' = [ret EXCEPT ![c] = Outcome(response[c].status, response[c].doc)]
            /\ response' = [response EXCEPT ![c] = NoResponse]
            /\ atCall' = [atCall EXCEPT ![c] = NoCall]
    /\ loaded' = [loaded EXCEPT ![c] = 0]
    /\ UNCHANGED <<now, req, getLog, sent, cacheVars>>

\* self.errorsMade += 1 (line 109), then the raise of line 110.
LoadErrorsMade(c) == LoadCounter(c, "109", client.errorsMade)
StoreErrorsMade(c) ==
    /\ pc[c] = "store109"
    /\ client' = [client EXCEPT !.errorsMade = loaded[c] + 1]
    /\ pc' = [pc EXCEPT ![c] = "idle"]
    /\ ret' = [ret EXCEPT ![c] = Outcome(response[c].status, response[c].doc)]
    /\ response' = [response EXCEPT ![c] = NoResponse]
    /\ atCall' = [atCall EXCEPT ![c] = NoCall]
    /\ loaded' = [loaded EXCEPT ![c] = 0]
    /\ UNCHANGED <<now, req, getLog, sent, cacheVars>>

\* ========================================================== BeaDataSet
\* The eight list attributes of a BeaDataSet, in the order they are written.
ListFields ==
    <<"parameters", "parametersDescriptions", "parametersRequiredInRequest",
      "parametersDefaultValues", "parametersMultipleValsAcceptedInRequest",
      "parametersAllValueRequest", "parameterInputs", "parameterInputsDescriptions">>

\* BeaDataSet.__init__
BeaDataSet(dataSetName, dataSetDescription) ==
    [dataSetName |-> dataSetName,
     dataSetDescription |-> dataSetDescription,
     parameters |-> PyList(<<>>),
     parametersDescriptions |-> PyList(<<>>),
     parametersRequiredInRequest |-> PyList(<<>>),
     parametersDefaultValues |-> PyList(<<>>),
     parametersMultipleValsAcceptedInRequest |-> PyList(<<>>),
     parametersAllValueRequest |-> PyList(<<>>),
     parameterInputs |-> PyList(<<>>),
     parameterInputsDescriptions |-> PyList(<<>>)]

\* ====================================================== the cache file
\* The lines writeDataSetsToFile writes for one dataset.
WriteDataSet(o) ==
    o.dataSetName \o <<Newline>> \o
    o.dataSetDescription \o <<Newline>> \o
    Concat([i \in DOMAIN ListFields |-> Repr(o[ListFields[i]]) \o <<Newline>>]) \o
    <<NUL, Newline>>

\* A writer that leaves out the date line.
writeDataSetsWithoutDate(dataSetObjects, currentDate) ==
    Concat([i \in DOMAIN dataSetObjects |-> WriteDataSet(dataSetObjects[i])])

\* writeDataSetsToFile: the text of the file written on currentDate.
writeDataSetsToFile(dataSetObjects, currentDate) ==
    FormatDate(currentDate) \o <<Newline>> \o
    Concat([i \in DOMAIN dataSetObjects |-> WriteDataSet(dataSetObjects[i])])

\* The loop of readBeaDataSets that reads the datasets, from line i on:
\* [ok, objs]; ok is FALSE when parseList raises.
RECURSIVE ReadDataSets(_, _, _)
ReadDataSets(lines, i, acc) ==
    LET dataSetName == Strip(ReadLine(lines, i))
        dataSetDescription == Strip(ReadLine(lines, i + 1))
        lists == [k \in DOMAIN ListFields |-> parseList(ReadLine(lines, i + 1 + k))]
        o == [f \in DOMAIN BeaDataSet(EmptyStr, EmptyStr) |->
                 CASE f = "dataSetName" -> dataSetName
                   [] f = "dataSetDescription" -> dataSetDescription
                   [] OTHER -> lists[CHOOSE k \in DOMAIN ListFields : ListFields[k] = f].val]
    IN  IF dataSetName = EmptyStr THEN [ok |-> TRUE, objs |-> acc]
        ELSE IF \E k \in DOMAIN lists : ~lists[k].ok THEN [ok |-> FALSE, objs |-> <<>>]
        ELSE ReadDataSets(lines, i + 11, Append(acc, o))

\* ==================================================== readBeaDataSets
NoFile == [exists |-> FALSE, text |-> EmptyStr]
FileOf(text) == [exists |-> TRUE, text |-> text]

\* What readBeaDataSets hands to main.py.
NoResult == [kind |-> "none", objs |-> <<>>, exc |-> NoOutcome]
ReturnList(objs) == [kind |-> "list", objs |-> objs, exc |-> NoOutcome]
ReturnNone == [kind |-> "None", objs |-> <<>>, exc |-> NoOutcome]
Raise(exc) == [kind |-> "raised", objs |-> <<>>, exc |-> exc]

\* The locals of downloadBeaDatasets: the (name, description) pairs of the
\* dataset list, the index of the dataset being built and the object built
\* for it, the index of the parameter whose inputs were requested, and
\* dataSetObjects.
NoBuild == [phase |-> "none", datasets |-> <<>>, d |-> 0,
            o |-> BeaDataSet(EmptyStr, EmptyStr), p |-> 0, objs |-> <<>>]

\* What downloadBeaDatasets does next: another request, return, or raise.
Request(url, b) == [do |-> "request", url |-> url, b |-> b, exc |-> NoOutcome]
Return(b) == [do |-> "return", url |-> NoUrl, b |-> b, exc |-> NoOutcome]
Fail(exc, b) == [do |-> "raise", url |-> NoUrl, b |-> b, exc |-> exc]

\* The loop over the datasets: request the parameter list of dataset d, or
\* return dataSetObjects after the last one.
ForDataSet(b, d) ==
    IF d > Len(b.datasets) THEN Return(b)
    ELSE LET o == BeaDataSet(b.datasets[d][1].v, b.datasets[d][2].v)
         IN  IF ~IsStr(b.datasets[d][1]) \/ ~IsStr(b.datasets[d][2])
             THEN Fail(PyError("TypeError"), b)
             ELSE Request(ParameterListUrl(o.dataSetName),
                          [b EXCEPT !.phase = "params", !.d = d, !.o = o, !.p = 0])

\* A loop over the parameters that requests the inputs of the first one only.
ForParameterFirstOnly(b, p) ==
    IF p > Len(b.o.parameters.v) \/ p > 1
    THEN ForDataSet([b EXCEPT !.objs = Append(@, b.o)], b.d + 1)
    ELSE Request(ParamInputValuesUrl(b.o.dataSetName, b.o.parameters.v[p]),
                 [b EXCEPT !.phase = "inputs", !.p = p])

\* The loop over the parameters of the dataset being built: request the
\* inputs of parameter p, or append the dataset after the last one.
ForParameter(b, p) ==
    IF p > Len(b.o.parameters.v)
    THEN ForDataSet([b EXCEPT !.objs = Append(@, b.o)], b.d + 1)
    ELSE Request(ParamInputValuesUrl(b.o.dataSetName, b.o.parameters.v[p]),
                 [b EXCEPT !.phase = "inputs", !.p = p])

\* downloadBeaDatasets after the dataset list request returned doc.
OnDataSetList(b, doc) ==
    LET datasets == Results(doc, "Dataset")
        pairs == IF datasets.ok THEN extractDataSets(datasets.val) ELSE datasets
    IN  IF ~pairs.ok THEN Fail(PyError(pairs.exc), b)
        ELSE ForDataSet([b EXCEPT !.datasets = pairs.val], 1)

\* downloadBeaDatasets after a parameter list request returned doc.
OnParameterList(b, doc) ==
    LET parameters == Results(doc, "Parameter")
        info == IF parameters.ok THEN extractParamInfo(parameters.val) ELSE parameters
        o == updateParametersLists(
                 [f \in DOMAIN b.o |-> IF f \in DOMAIN info.val THEN info.val[f] ELSE b.o[f]])
    IN  IF ~info.ok THEN Fail(PyError(info.exc), b)
        ELSE ForParameter([b EXCEPT !.o = o], 1)

\* downloadBeaDatasets after a parameter values request returned doc.
OnParamValues(b, doc) ==
    LET inputs == Results(doc, "ParamValue")
        valid == IF inputs.ok
                 THEN extractValidInputs(inputs.val, b.o.dataSetName, b.o.parameters.v[b.p])
                 ELSE inputs
        o == [b.o EXCEPT
                !.parameterInputs = PyList(Append(@.v, valid.val.validInputs)),
                !.parameterInputsDescriptions = PyList(Append(@.v, valid.val.inputDescriptions))]
    IN  IF ~valid.ok THEN Fail(PyError(valid.exc), b)
        ELSE ForParameter([b EXCEPT !.o = o], b.p + 1)

\* A build that answers a failed request by returning the datasets built so
\* far.
OnOutcomeKeepBuilt(b, outcome) ==
    IF outcome.kind # "json" THEN Return(b)
    ELSE CASE b.phase = "list"   -> OnDataSetList(b, outcome.doc)
           [] b.phase = "params" -> OnParameterList(b, outcome.doc)
           [] b.phase = "inputs" -> OnParamValues(b, outcome.doc)

\* downloadBeaDatasets after the request it waited for ended with outcome.
OnOutcome(b, outcome) ==
    IF outcome.kind # "json" THEN Fail(outcome, b)
    ELSE CASE b.phase = "list"   -> OnDataSetList(b, outcome.doc)
           [] b.phase = "params" -> OnParameterList(b, outcome.doc)
           [] b.phase = "inputs" -> OnParamValues(b, outcome.doc)

\* How readBeaDataSets ends when downloadBeaDatasets raises: the call in the
\* try block is covered by "except Exception", which prints and returns
\* None; the call in the FileNotFoundError handler is covered by nothing.
OnBuildError(branch, exc) ==
    IF branch = "stale" THEN ReturnNone ELSE Raise(exc)
PrintedOnBuildError(branch) ==
    IF branch = "stale" THEN <<"An error occurred">> ELSE <<>>

\* readBeaDataSets finds no file: the FileNotFoundError handler starts
\* downloadBeaDatasets.
ReadFileNotFound ==
    /\ rpc = "call"
    /\ ~file.exists
    /\ printed' = Append(printed, "not found. Downloading datasets.")
    /\ path' = "absent"
    /\ build' = [NoBuild EXCEPT !.phase = "list"]
    /\ rpc' = "download"
    /\ EnterSendRequest(1, AllDatasetsUrl)
    /\ UNCHANGED <<now, getLog, server, today, file, result, runs, fileAtCall>>

\* The date line and the date of the file.
DateOfFile == ParseDate(Strip(ReadLine(Lines(file.text), 1)))

\* strptime raises on the first line: "except Exception" prints and returns
\* None.
ReadBadDate ==
    /\ rpc = "call"
    /\ file.exists
    /\ ~DateOfFile.ok
    /\ printed' = Append(printed, "An error occurred")
    /\ result' = ReturnNone
    /\ rpc' = "done"
    /\ UNCHANGED <<limiterVars, server, today, file, path, build, runs, fileAtCall>>

\* The file is outdated: downloadBeaDatasets is started inside the try block.
ReadOutdated ==
    /\ rpc = "call"
    /\ file.exists
    /\ DateOfFile.ok
    /\ IsOutdated(today, DateOfFile.date)
    /\ printed' = Append(printed, "Data is outdated. Downloading new datasets.")
    /\ path' = "stale"
    /\ build' = [NoBuild EXCEPT !.phase = "list"]
    /\ rpc' = "download"
    /\ EnterSendRequest(1, AllDatasetsUrl)
    /\ UNCHANGED <<now, getLog, server, today, file, result, runs, fileAtCall>>

\* The file is not outdated: its datasets are read and returned, or parseList
\* raises and "except Exception" prints and returns None.
ReadDataSetsFromFile ==
    /\ rpc = "call"
    /\ file.exists
    /\ DateOfFile.ok
    /\ ~IsOutdated(today, DateOfFile.date)
    /\ LET read == ReadDataSets(Lines(file.text), 2, <<>>)
       IN  /\ result' = IF read.ok THEN ReturnList(read.objs) ELSE ReturnNone
           /\ printed' = Append(printed, IF read.ok THEN "Data successfully loaded from file."
                                         ELSE "An error occurred")
    /\ rpc' = "done"
    /\ UNCHANGED <<limiterVars, server, today, file, path, build, runs, fileAtCall>>

\* The request downloadBeaDatasets waited for has ended: it goes on to its
\* next request, returns (the datasets are written and returned), or raises.
Download ==
    /\ rpc = "download"
    /\ pc[1] = "idle"
    /\ LET next == OnOutcome(build, ret[1])
       IN  /\ build' = next.b
           /\ CASE next.do = "request" ->
                     /\ EnterSendRequest(1, next.url)
                     /\ UNCHANGED <<file, result, printed, rpc>>
                [] next.do = "return" ->
                     /\ file' = FileOf(writeDataSetsToFile(next.b.objs, today))
                     /\ result' = ReturnList(next.b.objs)
                     /\ printed' = Append(printed, "Data successfully written")
                     /\ rpc' = "done"
                     /\ UNCHANGED <<client, pc, req, response, ret, sent, atCall, loaded>>
                [] next.do = "raise" ->
                     /\ result' = OnBuildError(path, next.exc)
                     /\ printed' = printed \o PrintedOnBuildError(path)
                     /\ rpc' = "done"
                     /\ UNCHANGED <<client, pc, req, response, ret, sent, atCall, loaded, file>>
    /\ UNCHANGED <<now, getLog, server, today, path, runs, fileAtCall>>

\* main.py is started again, on the same day: a new client, a new call.
Restart ==
    /\ rpc = "done"
    /\ runs < MaxRuns
    /\ runs' = runs + 1
    /\ client' = NewClient(client.requestLimit, DefaultDataLimitMb, client.errorLimit, now)
    /\ pc' = [c \in DOMAIN pc |-> "idle"]
    /\ req' = [c \in DOMAIN pc |-> NoUrl]
    /\ response' = [c \in DOMAIN pc |-> NoResponse]
    /\ ret' = [c \in DOMAIN pc |-> NoOutcome]
    /\ getLog' = <<>>
    /\ sent' = <<>>
    /\ atCall' = [c \in DOMAIN pc |-> NoCall]
    /\ loaded' = loaded
    /\ rpc' = "call"
    /\ path' = "none"
    /\ build' = NoBuild
    /\ result' = NoResult
    /\ printed' = <<>>
    /\ fileAtCall' = file
    /\ UNCHANGED <<now, server, today, file>>

\* The clock advances while a caller waits in the loop of checkLimits.
TickWaiting ==
    /\ \E c \in DOMAIN pc : pc[c] = "reset"
    /\ Tick

\* ------------------------------------------------------- the cache files
\* A catalog written by an earlier run.
StoredDataSets ==
    << [dataSetName |-> S("ITA"),
        dataSetDescription |-> Words(<<"Trade", "data">>),
        parameters |-> PyList(<<Str("Indicator")>>),
        parametersDescriptions |-> PyList(<<Text(<<"Indicator", "code">>)>>),
        parametersRequiredInRequest |-> PyList(<<PyBool(TRUE)>>),
        parametersDefaultValues |-> PyList(<<Na>>),
        parametersMultipleValsAcceptedInRequest |-> PyList(<<PyBool(FALSE)>>),
        parametersAllValueRequest |-> PyList(<<Str("ALL")>>),
        parameterInputs |-> PyList(<<PyList(<<Str("BalGds"), Str("BalServ")>>)>>),
        parameterInputsDescriptions |->
            PyList(<<PyList(<<Text(<<"Balance", "on", "goods">>),
                              Text(<<"Balance", "on", "services">>)>>)>>)] >>

Todays == {Date(2024, 4, 10), Date(2024, 6, 30)}
StoredDates ==
    {Date(2024, 4, 1), Date(2024, 6, 30), Date(2024, 2, 1), Date(2024, 3, 31),
     Date(2024, 7, 1), Date(2023, 5, 10), Date(2025, 5, 10)}

\* A file whose first list line is cut short.
CutFile(date) ==
    FormatDate(date) \o <<Newline, "ITA", Newline, "Trade", Newline,
                          "[", "'", "Indicator", Newline>>

InitFiles ==
    {NoFile}
    \cup {FileOf(writeDataSetsToFile(StoredDataSets, d)) : d \in StoredDates}
    \cup {FileOf(CutFile(d)) : d \in {Date(2024, 4, 1), Date(2024, 2, 1)}}
    \cup {FileOf(EmptyStr),
          FileOf(<<"2024", "-", "02", "-", "30", Newline>>),
          FileOf(<<"April", Space, "2024", Newline>>)}

\* ------------------------------------------ the limiter with a single caller
InitLimiter ==
    /\ now = 0
    /\ \E rl \in 1..MaxRequestLimit, el \in 1..MaxErrorLimit :
          client = NewClient(rl, 1, el, now)
    /\ pc = [c \in {1} |-> "idle"]
    /\ req = [c \in {1} |-> NoUrl]
    /\ response = [c \in {1} |-> NoResponse]
    /\ ret = [c \in {1} |-> NoOutcome]
    /\ getLog = <<>>
    /\ sent = <<>>
    /\ atCall = [c \in {1} |-> NoCall]
    /\ loaded = [c \in {1} |-> 0]

NextLimiter ==
    \/ \E c \in DOMAIN pc : SendRequest(c)
    \/ \E c \in DOMAIN pc : CheckLimitsWait(c)
    \/ \E c \in DOMAIN pc : CheckLimitsReset(c)
    \/ \E c \in DOMAIN pc : CheckLimitsGet(c)
    \/ \E c \in DOMAIN pc : CheckLimitsResponse(c)
    \/ Tick

vars == <<limiterVars, cacheVars>>

\* ------------------------------------------------------ specifications
\* The cache variables of a program that never calls readBeaDataSets.
NoCache ==
    /\ server = <<>>
    /\ today = Date(2024, 4, 10)
    /\ file = NoFile
    /\ rpc = "none"
    /\ path = "none"
    /\ build = NoBuild
    /\ result = NoResult
    /\ printed = <<>>
    /\ runs = 0
    /\ fileAtCall = NoFile

\* One caller calling sendRequest over and over.
Init == InitLimiter /\ NoCache
Spec == Init /\ [][NextLimiter]_vars

\* One caller calling sendRequest, where the clock keeps advancing, the
\* caller's thread keeps running its call and requests.get returns. Nothing
\* obliges the caller to call again.
Fairness ==
    /\ WF_vars(Tick)
    /\ \A c \in {1} : /\ WF_vars(CheckLimitsWait(c))
                      /\ WF_vars(CheckLimitsReset(c))
                      /\ WF_vars(CheckLimitsGet(c))
                      /\ WF_vars(CheckLimitsResponse(c))
NextLive ==
    \/ \E c \in DOMAIN pc : Len(getLog) < LiveGets /\ SendRequest(c)
    \/ \E c \in DOMAIN pc : CheckLimitsWait(c)
    \/ \E c \in DOMAIN pc : CheckLimitsReset(c)
    \/ \E c \in DOMAIN pc : CheckLimitsGet(c)
    \/ \E c \in DOMAIN pc : CheckLimitsResponse(c)
    \/ Tick
LiveSpec == Init /\ [][NextLive]_vars /\ Fairness

\* One thread, or two threads that share one client, calling sendRequest.
CallerSets == {{1}, {1, 2}}
InitThreads ==
    /\ now = 0
    /\ \E rl \in 1..MaxRequestLimit : client = NewClient(rl, 1, MaxErrorLimit, now)
    /\ \E callers \in CallerSets :
          /\ pc = [c \in callers |-> "idle"]
          /\ req = [c \in callers |-> NoUrl]
          /\ response = [c \in callers |-> NoResponse]
          /\ ret = [c \in callers |-> NoOutcome]
          /\ atCall = [c \in callers |-> NoCall]
          /\ loaded = [c \in callers |-> 0]
    /\ getLog = <<>>
    /\ sent = <<>>
    /\ NoCache

\* The calls begun so far: those that issued their GET and those that still
\* stand before it.
BeforeGet == {"enter", "reset", "write68", "write69", "write70", "write71", "while"}
CallsBegun == Len(getLog) + Cardinality({c \in DOMAIN pc : pc[c] \in BeforeGet})

NextThreads ==
    \/ \E c \in DOMAIN pc : CallsBegun < ThreadGets /\ SendRequestThread(c)
    \/ \E c \in DOMAIN pc : ResetCountersTest(c)
    \/ \E c \in DOMAIN pc : WriteRequestsMade(c)
    \/ \E c \in DOMAIN pc : WriteDataReceived(c)
    \/ \E c \in DOMAIN pc : WriteErrorsMade(c)
    \/ \E c \in DOMAIN pc : WriteLastReset(c)
    \/ \E c \in DOMAIN pc : CheckLimitsWait(c)
    \/ \E c \in DOMAIN pc : CheckLimitsGet(c)
    \/ \E c \in DOMAIN pc : ResponseArrives(c)
    \/ \E c \in DOMAIN pc : LoadRequestsMade(c)
    \/ \E c \in DOMAIN pc : StoreRequestsMade(c)
    \/ \E c \in DOMAIN pc : LoadDataReceived(c)
    \/ \E c \in DOMAIN pc : StoreDataReceived(c)
    \/ \E c \in DOMAIN pc : LoadErrorsMade(c)
    \/ \E c \in DOMAIN pc : StoreErrorsMade(c)
    \/ TickWaiting

ThreadsSpec == InitThreads /\ [][NextThreads]_vars

\* One caller on a client built with any limits, zero included.
InitAnyLimit ==
    /\ now = 0
    /\ \E rl \in 0..MaxRequestLimit, el \in 0..MaxErrorLimit, dl \in {0, 1} :
          client = NewClient(rl, dl, el, now)
    /\ pc = [c \in {1} |-> "idle"]
    /\ req = [c \in {1} |-> NoUrl]
    /\ response = [c \in {1} |-> NoResponse]
    /\ ret = [c \in {1} |-> NoOutcome]
    /\ getLog = <<>>
    /\ sent = <<>>
    /\ atCall = [c \in {1} |-> NoCall]
    /\ loaded = [c \in {1} |-> 0]
    /\ NoCache

AnyLimitSpec == InitAnyLimit /\ [][NextLimiter]_vars

\* main.py: a client, then readBeaDataSets(client).
InitCache ==
    /\ now = 0
    /\ client = NewClient(CacheRequestLimit, DefaultDataLimitMb, DefaultErrorLimit, now)
    /\ pc = [c \in {1} |-> "idle"]
    /\ req = [c \in {1} |-> NoUrl]
    /\ response = [c \in {1} |-> NoResponse]
    /\ ret = [c \in {1} |-> NoOutcome]
    /\ getLog = <<>>
    /\ sent = <<>>
    /\ atCall = [c \in {1} |-> NoCall]
    /\ loaded = [c \in {1} |-> 0]
    /\ server \in Servers
    /\ today \in Todays
    /\ file \in InitFiles
    /\ rpc = "call"
    /\ path = "none"
    /\ build = NoBuild
    /\ result = NoResult
    /\ printed = <<>>
    /\ runs = 1
    /\ fileAtCall = file

NextCache ==
    \/ ReadFileNotFound
    \/ ReadBadDate
    \/ ReadOutdated
    \/ ReadDataSetsFromFile
    \/ Download
    \/ Restart
    \/ \E c \in DOMAIN pc : CheckLimitsWait(c)
    \/ \E c \in DOMAIN pc : CheckLimitsReset(c)
    \/ \E c \in DOMAIN pc : CheckLimitsGet(c)
    \/ \E c \in DOMAIN pc : CheckLimitsResponse(c)
    \/ TickWaiting

CacheSpec == InitCache /\ [][NextCache]_vars

\* main.py against any server, those that answer the dataset list with a
\* bare object included.
InitAnyServer ==
    /\ now = 0
    /\ client = NewClient(CacheRequestLimit, DefaultDataLimitMb, DefaultErrorLimit, now)
    /\ pc = [c \in {1} |-> "idle"]
    /\ req = [c \in {1} |-> NoUrl]
    /\ response = [c \in {1} |-> NoResponse]
    /\ ret = [c \in {1} |-> NoOutcome]
    /\ getLog = <<>>
    /\ sent = <<>>
    /\ atCall = [c \in {1} |-> NoCall]
    /\ loaded = [c \in {1} |-> 0]
    /\ server \in Servers \cup BareListServers
    /\ today \in Todays
    /\ file \in InitFiles
    /\ rpc = "call"
    /\ path = "none"
    /\ build = NoBuild
    /\ result = NoResult
    /\ printed = <<>>
    /\ runs = 1
    /\ fileAtCall = file

AnyServerSpec == InitAnyServer /\ [][NextCache]_vars

\* ===================================================================== claims

\* Number of GETs issued in the 60 seconds that begin at t.
GetsInWindowFrom(t) ==
    Cardinality({i \in DOMAIN getLog : getLog[i] >= t /\ getLog[i] < t + WindowSecs})

\* A caller enters sendRequest in this step.
CallStarts(c) == pc[c] = "idle" /\ pc'[c] = "while"
\* A caller issues its GET in this step.
GetIssued(c) == pc[c] = "while" /\ pc'[c] = "get"
\* A caller's call ends in this step, with a result or an exception.
CallEnds(c) == pc[c] = "get" /\ pc'[c] = "idle"

\* C1: in every interval of 60 seconds of wall-clock time, wherever it begins,
\* the client issues at most requestLimit GETs.
C1_RollingWindow ==
    \A t \in 0..MaxTime : GetsInWindowFrom(t) <= client.requestLimit

\* C2 as stated: at the start of every call requestsMade <= requestLimit,
\* dataReceived <= dataLimit and errorsMade <= errorLimit.
C2_AllWithinLimitsAtCallStart ==
    [][\A c \in DOMAIN pc : CallStarts(c) =>
          /\ client.requestsMade <= client.requestLimit
          /\ client.dataReceived <= client.dataLimit
          /\ client.errorsMade <= client.errorLimit]_vars

\* C2 amended: at the start of every call requestsMade <= requestLimit and
\* errorsMade <= errorLimit; dataReceived may then be above dataLimit, and
\* all three counters are below their limits when the call issues its GET.
C2_WithinLimits ==
    [][\A c \in DOMAIN pc :
          /\ CallStarts(c) =>
                /\ client.requestsMade <= client.requestLimit
                /\ client.errorsMade <= client.errorLimit
          /\ GetIssued(c) =>
                /\ client.requestsMade < client.requestLimit
                /\ client.dataReceived < client.dataLimit
                /\ client.errorsMade < client.errorLimit]_vars

\* C2 witness: a call has started, without a rollover, with more bytes
\* counted than dataLimit.
C2_Witness ==
    \E c \in DOMAIN pc :
        /\ pc[c] = "while"
        /\ client.dataReceived > client.dataLimit
        /\ client.requestsMade = client.requestLimit

\* C3: every step either keeps lastReset and decreases no counter, or is a
\* rollover, taken when now - lastReset > 60, that zeroes the three counters
\* and sets lastReset to now together.
C3_ResetTogether ==
    [][\/ /\ client'.lastReset = client.lastReset
          /\ client'.requestsMade >= client.requestsMade
          /\ client'.dataReceived >= client.dataReceived
          /\ client'.errorsMade >= client.errorsMade
       \/ /\ now - client.lastReset > WindowSecs
          /\ client'.requestsMade = 0
          /\ client'.dataReceived = 0
          /\ client'.errorsMade = 0
          /\ client'.lastReset = now]_vars

\* C3 witness: a rollover has happened after a window in which a request
\* failed, and nothing has been counted since.
C3_Witness ==
    /\ client.lastReset > 0
    /\ \E i \in DOMAIN getLog : getLog[i] < client.lastReset
    /\ \E c \in DOMAIN pc : ret[c].kind = "none" /\ response[c].status = 500
    /\ client.requestsMade = 0 /\ client.dataReceived = 0 /\ client.errorsMade = 0

\* C4: a response other than 200 ends the call with an error carrying the
\* status and no body, after counting one request, the body size and one
\* error; a 200 counts one request and the body size, no error, and the call
\* returns the parsed document.
C4_ResponseCounted ==
    [][\A c \in DOMAIN pc : CallEnds(c) =>
          LET r == response'[c] IN
          /\ client'.requestsMade = client.requestsMade + 1
          /\ client'.dataReceived = client.dataReceived + r.size
          /\ r.status # 200 =>
                /\ client'.errorsMade = client.errorsMade + 1
                /\ ret'[c].kind = "error"
                /\ ret'[c].status = r.status
                /\ ret'[c].doc = NoDoc
          /\ r.status = 200 =>
                /\ client'.errorsMade = client.errorsMade
                /\ ret'[c].kind = "json"
                /\ ret'[c].doc = r.doc]_vars

\* C4 witness: a call has failed on a 404 of 700000 bytes, after a call that
\* succeeded.
C4_Witness ==
    \E c \in DOMAIN pc :
        /\ pc[c] = "idle"
        /\ ret[c] = RequestError(404)
        /\ response[c].size = 700000
        /\ client.requestsMade = 2
        /\ client.errorsMade = 1

\* ---------------------------------------------------------- claims on the cache
\* The calendar quarter of a month, month by month.
QuarterOfMonth(m) ==
    CASE m \in {1, 2, 3} -> 1
      [] m \in {4, 5, 6} -> 2
      [] m \in {7, 8, 9} -> 3
      [] m \in {10, 11, 12} -> 4

SameQuarterAndYear(a, b) ==
    a.year = b.year /\ QuarterOfMonth(a.month) = QuarterOfMonth(b.month)

\* The first line of the file the call found, and the date it spells, if it
\* spells a date of the calendar as YYYY-MM-DD.
DateLineAtCall == Strip(ReadLine(Lines(fileAtCall.text), 1))
HasStoredDate ==
    /\ Len(DateLineAtCall) = 5
    /\ DateLineAtCall[2] = "-"
    /\ DateLineAtCall[4] = "-"
    /\ \E y \in Years, m \in 1..12 :
          /\ YearText[y] = DateLineAtCall[1]
          /\ TwoDigits[m] = DateLineAtCall[3]
          /\ \E d \in 1..DaysInMonth(y, m) : TwoDigits[d] = DateLineAtCall[5]
StoredDate ==
    Date(CHOOSE y \in Years : YearText[y] = DateLineAtCall[1],
         CHOOSE m \in 1..12 : TwoDigits[m] = DateLineAtCall[3],
         CHOOSE d \in 1..31 : TwoDigits[d] = DateLineAtCall[5])

\* The records of the file the call found, as the read loop yields them.
RecordsAtCall == ReadDataSets(Lines(fileAtCall.text), 2, <<>>)

\* readBeaDataSets has ended, with a result or an exception.
CallDone == rpc = "done"
\* The call found a file dated in the current quarter of the current year.
FreshAtCall ==
    fileAtCall.exists /\ HasStoredDate /\ SameQuarterAndYear(StoredDate, today)
\* The call ran a build and every request of the build was answered with 200.
EveryFetchSucceeded == path # "none" /\ ret[1].kind = "json"

\* C5: when the file exists and its date lies in the same quarter of the same
\* year as today, the call issues no GET, leaves the file as it found it,
\* starts no build, and returns the datasets read from the file (None when a
\* list line of the file does not parse).
C5_FreshCacheNoRequests ==
    (CallDone /\ FreshAtCall) =>
        /\ getLog = <<>>
        /\ path = "none"
        /\ file = fileAtCall
        /\ RecordsAtCall.ok => result = ReturnList(RecordsAtCall.objs)
        /\ ~RecordsAtCall.ok => result.kind = "None"
        /\ (\E dt \in StoredDates : fileAtCall.text = FormatDate(dt) \o <<Newline>>
                \o Concat([i \in DOMAIN StoredDataSets |-> WriteDataSet(StoredDataSets[i])]))
              => result = ReturnList(StoredDataSets)

\* C5 witness: on 10 April a file dated 30 June of the same year has been
\* loaded without a request.
C5_Witness ==
    /\ CallDone
    /\ today = Date(2024, 4, 10)
    /\ HasStoredDate /\ StoredDate = Date(2024, 6, 30)
    /\ result = ReturnList(StoredDataSets)
    /\ getLog = <<>>
    /\ printed = <<"Data successfully loaded from file.">>

\* C6 as stated: whenever the stored quarter differs from the current quarter
\* or the stored year differs from the current year, in either direction, the
\* call runs a build and, every fetch succeeding, writes the datasets built
\* to the file and returns them.
C6_RebuildWhenDateDiffers ==
    (CallDone /\ fileAtCall.exists /\ HasStoredDate
        /\ ~SameQuarterAndYear(StoredDate, today)) =>
        /\ path = "stale"
        /\ getLog # <<>>
        /\ EveryFetchSucceeded =>
              /\ result.kind = "list"
              /\ file = FileOf(writeDataSetsToFile(result.objs, today))

\* C7: when the file does not exist and every fetch succeeds, the call runs a
\* build, creates the file with today's date on its first line, followed by
\* the datasets built, and returns the datasets built: one per dataset the
\* server lists, in the server's order.
C7_AbsentFileBuilt ==
    (CallDone /\ ~fileAtCall.exists /\ ret[1].kind = "json") =>
        /\ path = "absent"
        /\ getLog # <<>>
        /\ result.kind = "list"
        /\ Len(result.objs) = Len(server)
        /\ \A i \in DOMAIN server :
              /\ PyStr(result.objs[i].dataSetName)
                    = DictGet(server[i].entry, S("DatasetName"), NA)
              /\ PyStr(result.objs[i].dataSetDescription)
                    = DictGet(server[i].entry, S("DatasetDescription"), NA)
        /\ file.exists
        /\ ReadLine(Lines(file.text), 1) = FormatDate(today)
        /\ file.text = FormatDate(today) \o <<Newline>>
              \o Concat([i \in DOMAIN result.objs |-> WriteDataSet(result.objs[i])])

\* C7 witness: without a file, the two datasets of a server have been built
\* with six requests and written under today's date.
C7_Witness ==
    /\ CallDone
    /\ ~fileAtCall.exists
    /\ path = "absent"
    /\ server = <<Nipa, Regional>>
    /\ Len(getLog) = 6
    /\ result.kind = "list" /\ Len(result.objs) = 2
    /\ file.exists
    /\ ReadLine(Lines(file.text), 1) = FormatDate(today)

\* C8: when the first line of the file is not a YYYY-MM-DD date, or the file
\* is dated in the current quarter and a list line of a record fails to
\* parse, the call prints the error and returns None, issues no GET, starts
\* no build and leaves the file as it found it.
C8_UnreadableCacheReturnsNone ==
    (CallDone /\ fileAtCall.exists
        /\ (~HasStoredDate \/ (FreshAtCall /\ ~RecordsAtCall.ok))) =>
        /\ result.kind = "None"
        /\ printed = <<"An error occurred">>
        /\ getLog = <<>>
        /\ path = "none"
        /\ file = fileAtCall

\* C8 witness: a file whose first line is 2024-02-30 has been refused.
C8_Witness ==
    /\ CallDone
    /\ fileAtCall.exists
    /\ DateLineAtCall = <<"2024", "-", "02", "-", "30">>
    /\ result.kind = "None"
    /\ getLog = <<>>

\* C8 witness, the other case: a file dated in the current quarter whose
\* first list line is cut short has been refused.
C8_WitnessListLine ==
    /\ CallDone
    /\ FreshAtCall
    /\ ~RecordsAtCall.ok
    /\ result.kind = "None"
    /\ getLog = <<>>

\* C9 as stated: when a fetch of a build fails with a request error, the
\* call raises that same error to its caller, on the path of the absent file
\* and on the path of the outdated file.
C9_RequestErrorReachesCaller ==
    (CallDone /\ path # "none" /\ ret[1].kind = "error") =>
        result = Raise(ret[1])

\* C10 as stated: the datasets a build returned and wrote to the file are
\* read back from that file, in the same quarter, in the same number, in the
\* same order and equal field for field.
C10_RoundTrip ==
    (CallDone /\ path # "none" /\ result.kind = "list") =>
        ReadDataSets(Lines(file.text), 2, <<>>) = [ok |-> TRUE, objs |-> result.objs]

\* ---------------------------------------------------------- claims on the build
\* readBeaDataSets has ended after a build that returned its datasets.
BuildReturned == CallDone /\ path # "none" /\ result.kind = "list"

\* The positions in the log of the requests of a method for a dataset.
SentFor(method, name) ==
    {i \in DOMAIN sent : sent[i].method = method /\ sent[i].datasetname = name}

\* C11: a dataset whose parameter list is answered with a single bare object
\* is built with exactly one parameter, carrying the object's name and
\* description, its flags as booleans, its default value and its all-values
\* token ("N/a" for an empty one), and exactly one parameter values request
\* is issued for the dataset, for that parameter.
C11_BareParameterObject ==
    BuildReturned =>
        \A i \in DOMAIN server :
            LET o == result.objs[i]
                asked == SentFor("GetParameterValues", o.dataSetName)
            IN  /\ server[i] = Mne =>
                      /\ o.parameters = PyList(<<Str("Country")>>)
                      /\ o.parametersDescriptions = PyList(<<Text(<<"Country", "code">>)>>)
                      /\ o.parametersRequiredInRequest = PyList(<<PyBool(TRUE)>>)
                      /\ o.parametersDefaultValues = PyList(<<Str("000")>>)
                      /\ o.parametersMultipleValsAcceptedInRequest = PyList(<<PyBool(TRUE)>>)
                      /\ o.parametersAllValueRequest = PyList(<<Str("all")>>)
                      /\ Cardinality(asked) = 1
                      /\ \A k \in asked : sent[k].ParameterName = S("Country")
                /\ server[i] = Regional =>
                      /\ o.parameters = PyList(<<Str("GeoFips")>>)
                      /\ o.parametersDescriptions = PyList(<<Text(<<"Comma-delimited", "list">>)>>)
                      /\ o.parametersRequiredInRequest = PyList(<<PyBool(FALSE)>>)
                      /\ o.parametersDefaultValues = PyList(<<Str("N/a")>>)
                      /\ o.parametersMultipleValsAcceptedInRequest = PyList(<<PyBool(FALSE)>>)
                      /\ o.parametersAllValueRequest = PyList(<<Str("N/a")>>)
                      /\ Cardinality(asked) = 1
                      /\ \A k \in asked : sent[k].ParameterName = S("GeoFips")

\* C11 witness: the dataset MNE has been built from its bare parameter
\* object, with one parameter values request.
C11_Witness ==
    /\ BuildReturned
    /\ server = <<Mne>>
    /\ Len(result.objs) = 1
    /\ result.objs[1].parameters = PyList(<<Str("Country")>>)
    /\ Len(sent) = 3
    /\ sent[3] = Url("GetParameterValues", S("MNE"), S("Country"))

\* C12 as stated: for the parameter Year of NIPA, the entry {T10101, 1929,
\* 2023, 1947, 2024, 0, 0} yields one record with the fields TableName,
\* AnnualYearRange, QuarterlyYearRange and MonthlyYearRange, paired with the
\* description "Year ranges for annual, quarterly, and monthly data from
\* table: T10101".
C12_YearRecordFields ==
    BuildReturned =>
        \A i \in DOMAIN server : server[i] = Nipa =>
            /\ result.objs[i].parameters.v[2] = Str("Year")
            /\ result.objs[i].parameterInputs.v[2] =
                  PyList(<< Obj(<< <<"TableName", Str("T10101")>>,
                                   <<"AnnualYearRange", PyStr(<<"1929", "-", "2023">>)>>,
                                   <<"QuarterlyYearRange", PyStr(<<"1947", "-", "2024">>)>>,
                                   <<"MonthlyYearRange", PyStr(<<"0", "-", "0">>)>> >>) >>)
            /\ result.objs[i].parameterInputsDescriptions.v[2] =
                  PyList(<< PyStr(Words(<<"Year", "ranges", "for", "annual,", "quarterly,",
                                         "and", "monthly", "data", "from", "table:", "T10101">>)) >>)

\* The names of the parameters the server holds for a dataset, in its order.
ServerParameterNames(ds) ==
    IF IsDict(ds.Parameter)
    THEN <<DictGet(ds.Parameter, S("ParameterName"), NA).v>>
    ELSE [k \in DOMAIN ds.Parameter.v |->
             DictGet(ds.Parameter.v[k], S("ParameterName"), NA).v]

\* The requests a build makes for one dataset of the server: its parameter
\* list, then the values of each parameter.
RequestsFor(ds) ==
    LET name == DictGet(ds.entry, S("DatasetName"), NA).v
    IN  <<Url("getparameterlist", name, NoArg)>> \o
        [k \in DOMAIN ServerParameterNames(ds) |->
            Url("GetParameterValues", name, ServerParameterNames(ds)[k])]

\* The number of parameters of the first n datasets built.
RECURSIVE ParametersBuilt(_, _)
ParametersBuilt(objs, n) ==
    IF n = 0 THEN 0 ELSE Len(objs[n].parameters.v) + ParametersBuilt(objs, n - 1)

\* C13: a build in which every fetch succeeds issues exactly 1 + D + the sum
\* of P_d GETs, in this order: the dataset list, then for each dataset in the
\* server's order its parameter list followed by the values of each of its
\* parameters in their order.
C13_RequestCountAndOrder ==
    BuildReturned =>
        /\ Len(sent) = 1 + Len(result.objs) + ParametersBuilt(result.objs, Len(result.objs))
        /\ Len(result.objs) = Len(server)
        /\ sent = <<Url("GETDATASETLIST", NoArg, NoArg)>>
                    \o Concat([d \in DOMAIN server |-> RequestsFor(server[d])])

\* C13 witness: NIPA (two parameters) and Regional (one) have been built
\* with the six requests 1 + 2 + (2 + 1).
C13_Witness ==
    /\ BuildReturned
    /\ server = <<Nipa, Regional>>
    /\ sent = << Url("GETDATASETLIST", NoArg, NoArg),
                 Url("getparameterlist", S("NIPA"), NoArg),
                 Url("GetParameterValues", S("NIPA"), S("Frequency")),
                 Url("GetParameterValues", S("NIPA"), S("Year")),
                 Url("getparameterlist", S("Regional"), NoArg),
                 Url("GetParameterValues", S("Regional"), S("GeoFips")) >>

\* C14: when a request of a build fails, downloadBeaDatasets raises that
\* error; the step that follows ends readBeaDataSets without a further GET
\* and without any dataset, the ones completed so far included, and nothing
\* is written.
C14_BuildFailsOnFetchError ==
    [][(rpc = "download" /\ pc[1] = "idle" /\ ret[1].kind = "error") =>
          /\ OnOutcome(build, ret[1]).do = "raise"
          /\ OnOutcome(build, ret[1]).exc = RequestError(response[1].status)
          /\ rpc' = "done"
          /\ sent' = sent
          /\ getLog' = getLog
          /\ result'.kind # "list"
          /\ result'.objs = <<>>
          /\ file' = file]_vars

\* C14 witness: a build has failed on a 500 after it had completed one
\* dataset and sent three requests.
C14_Witness ==
    /\ CallDone
    /\ path = "absent"
    /\ ret[1] = RequestError(500)
    /\ Len(build.objs) = 1
    /\ Len(sent) = 3
    /\ result = Raise(RequestError(500))
    /\ ~file.exists

\* C15 as stated: when the dataset list is answered with a single bare
\* object and every fetch succeeds, the build yields a catalog of exactly one
\* dataset, with that object's name and description.
C15_BareDataSetObject ==
    (CallDone /\ path # "none" /\ ret[1].kind = "json" /\ server \in BareListServers) =>
        /\ result.kind = "list"
        /\ Len(result.objs) = 1
        /\ PyStr(result.objs[1].dataSetName) = DictGet(server[1].entry, S("DatasetName"), NA)
        /\ PyStr(result.objs[1].dataSetDescription)
              = DictGet(server[1].entry, S("DatasetDescription"), NA)

\* The parameter objects the server holds for a dataset, and the values an
\* object holds under a key (none when the field is absent).
ServerParameters(ds) ==
    IF ds.Parameter.t = "dict" THEN <<ds.Parameter>> ELSE ds.Parameter.v
ServerField(p, key) == {p.v[i][2] : i \in {j \in DOMAIN p.v : p.v[j][1] = S(key)}}

\* C16: in every dataset a build returns, for every parameter the required
\* flag and the multiple-values flag are booleans, true exactly when the
\* server's field is the string "1" (false for another value and for an
\* absent field), and the default value and the all-values token are never
\* the empty string: "N/a" stands for an empty or absent one.
C16_FlagsAndSentinels ==
    BuildReturned =>
        \A i \in DOMAIN server :
            LET o == result.objs[i]
                ps == ServerParameters(server[i])
                flag(k, key) == PyBool(ServerField(ps[k], key) = {PyStr(<<"1">>)})
                missing(k, key) == ServerField(ps[k], key) \subseteq {PyStr(<<>>)}
            IN  /\ Len(o.parametersRequiredInRequest.v) = Len(ps)
                /\ Len(o.parametersMultipleValsAcceptedInRequest.v) = Len(ps)
                /\ Len(o.parametersDefaultValues.v) = Len(ps)
                /\ Len(o.parametersAllValueRequest.v) = Len(ps)
                /\ \A k \in DOMAIN ps :
                      /\ o.parametersRequiredInRequest.v[k] = flag(k, "ParameterIsRequiredFlag")
                      /\ o.parametersMultipleValsAcceptedInRequest.v[k]
                            = flag(k, "MultipleAcceptedFlag")
                      /\ o.parametersDefaultValues.v[k] # PyStr(<<>>)
                      /\ o.parametersAllValueRequest.v[k] # PyStr(<<>>)
                      /\ missing(k, "ParameterDefaultValue") =>
                            o.parametersDefaultValues.v[k] = PyStr(<<"N/a">>)
                      /\ missing(k, "AllValue") =>
                            o.parametersAllValueRequest.v[k] = PyStr(<<"N/a">>)

\* C16 witness: a dataset has been built whose parameters have a flag "1", a
\* flag "0", a flag "true", absent flags, and empty, absent and given default
\* values and all-values tokens.
C16_Witness ==
    /\ BuildReturned
    /\ server = <<IntlServTrade>>
    /\ Len(result.objs) = 1
    /\ result.objs[1].parametersRequiredInRequest
          = PyList(<<PyBool(TRUE), PyBool(FALSE), PyBool(FALSE)>>)
    /\ result.objs[1].parametersMultipleValsAcceptedInRequest
          = PyList(<<PyBool(FALSE), PyBool(TRUE), PyBool(FALSE)>>)
    /\ result.objs[1].parametersDefaultValues
          = PyList(<<PyStr(<<"N/a">>), PyStr(<<"5">>), PyStr(<<"N/a">>)>>)
    /\ result.objs[1].parametersAllValueRequest
          = PyList(<<PyStr(<<"All">>), PyStr(<<"N/a">>), PyStr(<<"N/a">>)>>)

\* =================================================== claims on one call
\* The number of GETs issued since the call of caller c began.
GetsOfCall(c) == Len(getLog) - atCall[c].gets

\* C17: a sendRequest call issues at most one GET, and exactly one when it
\* returns or fails with a request error: the GET is issued with no GET of
\* the call before it, the step that receives the response (of any status)
\* ends the call, and no other step of the call issues a GET.
C17_OneGetPerCall ==
    [][\A c \in DOMAIN pc :
          /\ GetIssued(c) => GetsOfCall(c) = 0 /\ Len(getLog') = Len(getLog) + 1
          /\ (pc[c] # "idle" /\ ~GetIssued(c)) => getLog' = getLog
          /\ pc[c] = "get" => /\ GetsOfCall(c) = 1
                              /\ pc'[c] \in {"get", "idle"}
          /\ CallEnds(c) => /\ Len(getLog') = atCall[c].gets + 1
                            /\ ret'[c].kind \in {"json", "error"}
                            /\ ret'[c].kind = "error" <=> response'[c].status # StatusOk
      ]_vars

\* C17 witness: in a later window the second call of a client of request
\* limit 1 has failed with a request error after its one GET.
C17_Witness ==
    /\ pc[1] = "idle"
    /\ ret[1].kind = "error"
    /\ response[1].status = 500
    /\ client.requestLimit = 1
    /\ client.lastReset > 0
    /\ Len(getLog) = 2

\* The client as the call of caller c found it had a counter at or above
\* its limit.
FoundExhausted(c) ==
    LET cl == atCall[c].client
    IN  \/ cl.requestsMade >= cl.requestLimit
        \/ cl.dataReceived >= cl.dataLimit
        \/ cl.errorsMade >= cl.errorLimit

\* C18: with a single caller, a call that found a counter at or above its
\* limit issues its GET only after a rollover during the call: at the step
\* that issues the GET the three counters are 0 and lastReset is later than
\* it was when the call began.
C18_GetOnlyAfterRollover ==
    [][\A c \in DOMAIN pc :
          (GetIssued(c) /\ FoundExhausted(c)) =>
              /\ client.requestsMade = 0
              /\ client.dataReceived = 0
              /\ client.errorsMade = 0
              /\ client.lastReset > atCall[c].client.lastReset
              /\ client' = client
      ]_vars

\* C18 witness: a call that began inside the window with the error budget
\* used up, and the other two not, has issued its GET after waiting for the
\* rollover, with the counters at 0.
C18_Witness ==
    /\ pc[1] = "get"
    /\ atCall[1].at - atCall[1].client.lastReset <= WindowSecs
    /\ atCall[1].at < now
    /\ atCall[1].client.errorsMade >= atCall[1].client.errorLimit
    /\ atCall[1].client.requestsMade < atCall[1].client.requestLimit
    /\ atCall[1].client.dataReceived < atCall[1].client.dataLimit
    /\ client.requestsMade = 0
    /\ client.dataReceived = 0
    /\ client.errorsMade = 0
    /\ client.lastReset > atCall[1].client.lastReset
    /\ getLog[Len(getLog)] = client.lastReset

\* The size of the last response counted in the current window.
LastCounted == IF client.requestsMade = 0 THEN 0 ELSE response[1].size

\* A counter of the client is at or past its limit.
AtOrPastLimit ==
    \/ client.requestsMade >= client.requestLimit
    \/ client.dataReceived >= client.dataLimit
    \/ client.errorsMade >= client.errorLimit

\* C19: with a single caller, in every reachable state dataReceived minus
\* the size of the last response counted in the current window is below
\* dataLimit, requestsMade <= requestLimit and errorsMade <= errorLimit; and
\* once a counter is at or past its limit the next call blocks until a
\* rollover: no step issues a GET, and no counter comes back under its limit
\* but by a rollover.
C19_AllowThenBlock ==
    /\ [](/\ client.dataReceived - LastCounted < client.dataLimit
          /\ client.requestsMade <= client.requestLimit
          /\ client.errorsMade <= client.errorLimit)
    /\ [][\A c \in DOMAIN pc :
             /\ (AtOrPastLimit /\ pc[c] = "while") => pc'[c] \in {"while", "reset"}
             /\ (AtOrPastLimit /\ pc[c] # "get") => getLog' = getLog
             /\ (AtOrPastLimit /\ ~AtOrPastLimit') => client'.lastReset > client.lastReset
         ]_vars

\* C19 witness: the second response of a window has taken dataReceived past
\* dataLimit, by less than its own size, and the next call is waiting.
C19_Witness ==
    /\ pc[1] = "reset"
    /\ client.dataReceived > client.dataLimit
    /\ client.dataReceived - response[1].size < client.dataLimit
    /\ client.requestsMade = client.requestLimit
    /\ Len(getLog) = 2

\* The clock of the model can still run past the end of a window that
\* begins now.
ClockRoom == now + WindowSecs + TickSecs <= MaxTime

\* C20: for a client with positive limits, when the clock keeps advancing
\* and the GET returns, every sendRequest call eventually issues its GET and
\* completes, with a result or with the request error of a response that was
\* not 200: a call that finds a budget exhausted is delayed, never failed.
C20_EveryCallCompletes ==
    \A c \in {1} :
        /\ (pc[c] = "while" /\ ClockRoom) ~> (pc[c] = "get")
        /\ (pc[c] = "get") ~>
              (/\ pc[c] = "idle"
               /\ ret[c].kind \in {"json", "error"}
               /\ ret[c].kind = "error" => response[c].status # StatusOk)

\* C20 witness: a call that began inside the window with the request budget
\* used up has waited for the rollover and issued its GET.
C20_Witness ==
    /\ pc[1] = "get"
    /\ atCall[1].client.requestsMade >= atCall[1].client.requestLimit
    /\ atCall[1].at - atCall[1].client.lastReset <= WindowSecs
    /\ atCall[1].at + WindowSecs + TickSecs <= MaxTime
    /\ now > atCall[1].at
    /\ getLog[Len(getLog)] = now

\* ================================================ claims on two callers
\* The GETs issued in the current window.
GetsInWindow == {i \in DOMAIN getLog : getLog[i] >= client.lastReset}

\* C21: the limit check and the counting are separate steps with the GET
\* between them: the step that issues a GET finds requestsMade below
\* requestLimit and counts nothing, the arrival of the response counts
\* nothing, and requestsMade grows only in the statement of line 105, after
\* the GET. With a single caller requestsMade never passes requestLimit; with
\* two callers on one client requestLimit + 1 is reached (see the witnesses).
C21_CheckThenCount ==
    /\ [](Cardinality(DOMAIN pc) = 1 => client.requestsMade <= client.requestLimit)
    /\ [][\A c \in DOMAIN pc :
             /\ GetIssued(c) => /\ client.requestsMade < client.requestLimit
                                /\ client' = client
             /\ (pc[c] = "get" /\ pc'[c] # "get") => client' = client
         ]_vars
    /\ [][client'.requestsMade > client.requestsMade =>
             \E c \in DOMAIN pc : pc[c] = "store105" /\ pc'[c] = "load106"]_vars

\* C21 witness: two callers have both issued a GET in one window of a client
\* that allows one fewer, and requestsMade stands at requestLimit + 1.
C21_Witness ==
    /\ DOMAIN pc = {1, 2}
    /\ \A c \in DOMAIN pc : pc[c] = "idle"
    /\ client.requestsMade = client.requestLimit + 1
    /\ Cardinality(GetsInWindow) = client.requestLimit + 1

\* C21 second witness: both callers have passed the check in a state with
\* requestsMade = requestLimit - 1 and both have a GET in flight.
C21_WitnessBothPassed ==
    /\ DOMAIN pc = {1, 2}
    /\ \A c \in DOMAIN pc : pc[c] = "get"
    /\ client.requestsMade = client.requestLimit - 1

\* ================================================ claims on a limit of 0
\* The client was built with requestLimit = 0, dataLimitMb = 0 or
\* errorLimit = 0.
ZeroLimit ==
    \/ client.requestLimit = 0
    \/ client.dataLimit = 0
    \/ client.errorLimit = 0

\* C22: a client built with requestLimit = 0, dataLimitMb = 0 or
\* errorLimit = 0 never issues a GET: its counters stay at 0, which is at or
\* above the limit of 0 after every rollover too, and a call, once begun,
\* stays in the wait loop: it neither returns nor fails.
C22_ZeroLimitNeverGets ==
    /\ [](ZeroLimit =>
             /\ getLog = <<>>
             /\ client.requestsMade = 0 /\ client.dataReceived = 0 /\ client.errorsMade = 0
             /\ \A c \in DOMAIN pc : pc[c] \in {"idle", "while", "reset"} /\ ret[c] = NoOutcome)
    /\ [][ZeroLimit =>
             /\ \A c \in DOMAIN pc : pc[c] # "idle" => pc'[c] \in {"while", "reset"}
             /\ client'.lastReset # client.lastReset =>
                   \/ client'.requestsMade >= client'.requestLimit
                   \/ client'.dataReceived >= client'.dataLimit
                   \/ client'.errorsMade >= client'.errorLimit
         ]_vars

\* C22 witness: a call on a client whose only zero limit is the byte limit is
\* back at the loop condition after a rollover inside the loop, without a GET.
C22_Witness ==
    /\ client.dataLimit = 0
    /\ client.requestLimit > 0
    /\ client.errorLimit > 0
    /\ pc[1] = "while"
    /\ client.lastReset > atCall[1].at
    /\ getLog = <<>>

\* ============================================ claims on the file's frame
\* C23: the cache file changes only in the step in which a build returns its
\* datasets, and a call whose build ended with a failed request leaves the
\* file exactly as it found it, on the stale path (the old date line and
\* records) and on the absent path (no file).
C23_FileKeptOnFailedBuild ==
    /\ []((CallDone /\ path # "none" /\ ret[1].kind = "error") => file = fileAtCall)
    /\ [][file' # file =>
             /\ rpc = "download" /\ rpc' = "done"
             /\ pc[1] = "idle" /\ ret[1].kind = "json"
             /\ result'.kind = "list"
             /\ result'.objs = build'.objs
         ]_vars

\* C23 witness: the rebuild of a stale file has failed on its second request
\* or later, and the file still holds what the call found.
C23_Witness ==
    /\ CallDone
    /\ path = "stale"
    /\ ret[1].kind = "error"
    /\ Len(sent) >= 2
    /\ fileAtCall.exists
    /\ file = fileAtCall

\* C23 second witness: the build for an absent file has failed after it had
\* completed a dataset, and there is still no file.
C23_WitnessAbsent ==
    /\ CallDone
    /\ path = "absent"
    /\ ret[1].kind = "error"
    /\ Len(build.objs) >= 1
    /\ ~fileAtCall.exists
    /\ ~file.exists
====
